---- MODULE Spec2Model ----
(***************************************************************************)
(* A model of src/src/rank_order.py: the extraction of the rank columns of *)
(* a survey sheet (load_rank_data), the per-course aggregation and stable  *)
(* ordering (summarize_rankings), and the sequence of steps of main().     *)
(*                                                                         *)
(* Data representation                                                     *)
(*   sheet cell     [k, num, txt]: k is "blank", "text" or "num"; txt is   *)
(*                  the text of a text cell as a sequence of fragments, a  *)
(*                  text cell standing for a string that is not a number   *)
(*   rank value     <<>> for NaN (absent), <<v>> for the number v          *)
(*   mean           <<>> for NaN, <<p, q>> for the fraction p/q in lowest  *)
(*                  terms (q > 0)                                          *)
(*   DataFrame      [columns |-> sequence of names, rows |-> sequence of   *)
(*                  rows, each a sequence with one value per column]       *)
(***************************************************************************)
EXTENDS Integers, Sequences, FiniteSets, TLC

VARIABLES pc, input_exists, df, outdir, outdir0, files, rank_df,
          total_rows_after_row4, rows_dropped_all_blank, stdout, summary, error

vars == <<pc, input_exists, df, outdir, outdir0, files, rank_df,
          total_rows_after_row4, rows_dropped_all_blank, stdout, summary, error>>

-----------------------------------------------------------------------------
(* Bounds of the model *)

\* How many entries of COURSE_COLUMN_MAP, from the first, the model keeps.
NumCourses == 2

\* The largest number of respondent rows of a sheet or of a rank table.
MaxRows == 2

\* Rank values are 1..MaxRank.
MaxRank == 2

-----------------------------------------------------------------------------
(* Program constants *)

DATA_START_ROW_IDX == 3

\* A key of the map is the sequence of the code points of its characters:
\* "L" is <<76>>, ..., "S" is <<83>>.
COURSE_COLUMN_MAP ==
    << [letter |-> <<76>>, name |-> "ACC 6060 Professionalism and Leadership"],
       [letter |-> <<77>>, name |-> "ACC 6300 Data Analytics"],
       [letter |-> <<78>>, name |-> "ACC 6400 Advanced Tax Business Entities"],
       [letter |-> <<79>>, name |-> "ACC 6510 Financial Audit"],
       [letter |-> <<80>>, name |-> "ACC 6540 Professional Ethics"],
       [letter |-> <<81>>, name |-> "ACC 6560 Financial Theory & Research I"],
       [letter |-> <<82>>, name |-> "ACC 6350 Management Control Systems"],
       [letter |-> <<83>>, name |-> "ACC 6600 Business Law for Accountants"] >>

\* string.ascii_uppercase, as code points: "A" is 65, "Z" is 90.
ascii_uppercase == [i \in 1..26 |-> 64 + i]

-----------------------------------------------------------------------------
(* Helpers *)

RECURSIVE GCD(_, _)
GCD(a, b) == IF b = 0 THEN a ELSE GCD(b, a % b)

RECURSIVE SeqSum(_)
SeqSum(s) == IF s = <<>> THEN 0 ELSE Head(s) + SeqSum(Tail(s))

\* Column j of a DataFrame, as the sequence of its values down the rows.
Column(frame, j) == [i \in 1..Len(frame.rows) |-> frame.rows[i][j]]

\* The position of column name c (the first, as names are unique here).
ColumnOf(frame, c) == CHOOSE j \in 1..Len(frame.columns) : frame.columns[j] = c

isna(v) == v = <<>>

notna(v) == v # <<>>

-----------------------------------------------------------------------------
(* excel_col_to_index *)

\* A string is the sequence of the code points of its characters.

\* The characters str.strip() removes, those str.isspace() holds of: the
\* ASCII ones (tab to carriage return, the separators 28..31, the space) and
\* the other white space of Unicode 14.0.0.
Whitespace ==
    (9..13) \cup (28..32) \cup {133} \cup {160} \cup {5760} \cup (8192..8202) \cup (8232..8233) \cup {8239} \cup {8287} \cup {12288}

RECURSIVE lstrip(_)
lstrip(chars) ==
    IF chars # <<>> /\ Head(chars) \in Whitespace THEN lstrip(Tail(chars)) ELSE chars

RECURSIVE rstrip(_)
rstrip(chars) ==
    IF chars # <<>> /\ chars[Len(chars)] \in Whitespace
    THEN rstrip(SubSeq(chars, 1, Len(chars) - 1))
    ELSE chars

\* col_letters.strip()
strip(chars) == rstrip(lstrip(chars))

\* The characters str.upper() maps to one other character, as runs
\* <<first, last, offset>>: a character c of first..last becomes c + offset
\* (Unicode 14.0.0; <<97, 122, -32>> is a..z).
UpperRuns ==
    <<
       <<97,122,-32>>, <<181,181,743>>, <<224,246,-32>>, <<248,254,-32>>,
       <<255,255,121>>, <<257,257,-1>>, <<259,259,-1>>, <<261,261,-1>>,
       <<263,263,-1>>, <<265,265,-1>>, <<267,267,-1>>, <<269,269,-1>>,
       <<271,271,-1>>, <<273,273,-1>>, <<275,275,-1>>, <<277,277,-1>>,
       <<279,279,-1>>, <<281,281,-1>>, <<283,283,-1>>, <<285,285,-1>>,
       <<287,287,-1>>, <<289,289,-1>>, <<291,291,-1>>, <<293,293,-1>>,
       <<295,295,-1>>, <<297,297,-1>>, <<299,299,-1>>, <<301,301,-1>>,
       <<303,303,-1>>, <<305,305,-232>>, <<307,307,-1>>, <<309,309,-1>>,
       <<311,311,-1>>, <<314,314,-1>>, <<316,316,-1>>, <<318,318,-1>>,
       <<320,320,-1>>, <<322,322,-1>>, <<324,324,-1>>, <<326,326,-1>>,
       <<328,328,-1>>, <<331,331,-1>>, <<333,333,-1>>, <<335,335,-1>>,
       <<337,337,-1>>, <<339,339,-1>>, <<341,341,-1>>, <<343,343,-1>>,
       <<345,345,-1>>, <<347,347,-1>>, <<349,349,-1>>, <<351,351,-1>>,
       <<353,353,-1>>, <<355,355,-1>>, <<357,357,-1>>, <<359,359,-1>>,
       <<361,361,-1>>, <<363,363,-1>>, <<365,365,-1>>, <<367,367,-1>>,
       <<369,369,-1>>, <<371,371,-1>>, <<373,373,-1>>, <<375,375,-1>>,
       <<378,378,-1>>, <<380,380,-1>>, <<382,382,-1>>, <<383,383,-300>>,
       <<384,384,195>>, <<387,387,-1>>, <<389,389,-1>>, <<392,392,-1>>,
       <<396,396,-1>>, <<402,402,-1>>, <<405,405,97>>, <<409,409,-1>>,
       <<410,410,163>>, <<414,414,130>>, <<417,417,-1>>, <<419,419,-1>>,
       <<421,421,-1>>, <<424,424,-1>>, <<429,429,-1>>, <<432,432,-1>>,
       <<436,436,-1>>, <<438,438,-1>>, <<441,441,-1>>, <<445,445,-1>>,
       <<447,447,56>>, <<453,453,-1>>, <<454,454,-2>>, <<456,456,-1>>,
       <<457,457,-2>>, <<459,459,-1>>, <<460,460,-2>>, <<462,462,-1>>,
       <<464,464,-1>>, <<466,466,-1>>, <<468,468,-1>>, <<470,470,-1>>,
       <<472,472,-1>>, <<474,474,-1>>, <<476,476,-1>>, <<477,477,-79>>,
       <<479,479,-1>>, <<481,481,-1>>, <<483,483,-1>>, <<485,485,-1>>,
       <<487,487,-1>>, <<489,489,-1>>, <<491,491,-1>>, <<493,493,-1>>,
       <<495,495,-1>>, <<498,498,-1>>, <<499,499,-2>>, <<501,501,-1>>,
       <<505,505,-1>>, <<507,507,-1>>, <<509,509,-1>>, <<511,511,-1>>,
       <<513,513,-1>>, <<515,515,-1>>, <<517,517,-1>>, <<519,519,-1>>,
       <<521,521,-1>>, <<523,523,-1>>, <<525,525,-1>>, <<527,527,-1>>,
       <<529,529,-1>>, <<531,531,-1>>, <<533,533,-1>>, <<535,535,-1>>,
       <<537,537,-1>>, <<539,539,-1>>, <<541,541,-1>>, <<543,543,-1>>,
       <<547,547,-1>>, <<549,549,-1>>, <<551,551,-1>>, <<553,553,-1>>,
       <<555,555,-1>>, <<557,557,-1>>, <<559,559,-1>>, <<561,561,-1>>,
       <<563,563,-1>>, <<572,572,-1>>, <<575,576,10815>>, <<578,578,-1>>,
       <<583,583,-1>>, <<585,585,-1>>, <<587,587,-1>>, <<589,589,-1>>,
       <<591,591,-1>>, <<592,592,10783>>, <<593,593,10780>>,
       <<594,594,10782>>, <<595,595,-210>>, <<596,596,-206>>,
       <<598,599,-205>>, <<601,601,-202>>, <<603,603,-203>>,
       <<604,604,42319>>, <<608,608,-205>>, <<609,609,42315>>,
       <<611,611,-207>>, <<613,613,42280>>, <<614,614,42308>>,
       <<616,616,-209>>, <<617,617,-211>>, <<618,618,42308>>,
       <<619,619,10743>>, <<620,620,42305>>, <<623,623,-211>>,
       <<625,625,10749>>, <<626,626,-213>>, <<629,629,-214>>,
       <<637,637,10727>>, <<640,640,-218>>, <<642,642,42307>>,
       <<643,643,-218>>, <<647,647,42282>>, <<648,648,-218>>,
       <<649,649,-69>>, <<650,651,-217>>, <<652,652,-71>>, <<658,658,-219>>,
       <<669,669,42261>>, <<670,670,42258>>, <<837,837,84>>, <<881,881,-1>>,
       <<883,883,-1>>, <<887,887,-1>>, <<891,893,130>>, <<940,940,-38>>,
       <<941,943,-37>>, <<945,961,-32>>, <<962,962,-31>>, <<963,971,-32>>,
       <<972,972,-64>>, <<973,974,-63>>, <<976,976,-62>>, <<977,977,-57>>,
       <<981,981,-47>>, <<982,982,-54>>, <<983,983,-8>>, <<985,985,-1>>,
       <<987,987,-1>>, <<989,989,-1>>, <<991,991,-1>>, <<993,993,-1>>,
       <<995,995,-1>>, <<997,997,-1>>, <<999,999,-1>>, <<1001,1001,-1>>,
       <<1003,1003,-1>>, <<1005,1005,-1>>, <<1007,1007,-1>>,
       <<1008,1008,-86>>, <<1009,1009,-80>>, <<1010,1010,7>>,
       <<1011,1011,-116>>, <<1013,1013,-96>>, <<1016,1016,-1>>,
       <<1019,1019,-1>>, <<1072,1103,-32>>, <<1104,1119,-80>>,
       <<1121,1121,-1>>, <<1123,1123,-1>>, <<1125,1125,-1>>,
       <<1127,1127,-1>>, <<1129,1129,-1>>, <<1131,1131,-1>>,
       <<1133,1133,-1>>, <<1135,1135,-1>>, <<1137,1137,-1>>,
       <<1139,1139,-1>>, <<1141,1141,-1>>, <<1143,1143,-1>>,
       <<1145,1145,-1>>, <<1147,1147,-1>>, <<1149,1149,-1>>,
       <<1151,1151,-1>>, <<1153,1153,-1>>, <<1163,1163,-1>>,
       <<1165,1165,-1>>, <<1167,1167,-1>>, <<1169,1169,-1>>,
       <<1171,1171,-1>>, <<1173,1173,-1>>, <<1175,1175,-1>>,
       <<1177,1177,-1>>, <<1179,1179,-1>>, <<1181,1181,-1>>,
       <<1183,1183,-1>>, <<1185,1185,-1>>, <<1187,1187,-1>>,
       <<1189,1189,-1>>, <<1191,1191,-1>>, <<1193,1193,-1>>,
       <<1195,1195,-1>>, <<1197,1197,-1>>, <<1199,1199,-1>>,
       <<1201,1201,-1>>, <<1203,1203,-1>>, <<1205,1205,-1>>,
       <<1207,1207,-1>>, <<1209,1209,-1>>, <<1211,1211,-1>>,
       <<1213,1213,-1>>, <<1215,1215,-1>>, <<1218,1218,-1>>,
       <<1220,1220,-1>>, <<1222,1222,-1>>, <<1224,1224,-1>>,
       <<1226,1226,-1>>, <<1228,1228,-1>>, <<1230,1230,-1>>,
       <<1231,1231,-15>>, <<1233,1233,-1>>, <<1235,1235,-1>>,
       <<1237,1237,-1>>, <<1239,1239,-1>>, <<1241,1241,-1>>,
       <<1243,1243,-1>>, <<1245,1245,-1>>, <<1247,1247,-1>>,
       <<1249,1249,-1>>, <<1251,1251,-1>>, <<1253,1253,-1>>,
       <<1255,1255,-1>>, <<1257,1257,-1>>, <<1259,1259,-1>>,
       <<1261,1261,-1>>, <<1263,1263,-1>>, <<1265,1265,-1>>,
       <<1267,1267,-1>>, <<1269,1269,-1>>, <<1271,1271,-1>>,
       <<1273,1273,-1>>, <<1275,1275,-1>>, <<1277,1277,-1>>,
       <<1279,1279,-1>>, <<1281,1281,-1>>, <<1283,1283,-1>>,
       <<1285,1285,-1>>, <<1287,1287,-1>>, <<1289,1289,-1>>,
       <<1291,1291,-1>>, <<1293,1293,-1>>, <<1295,1295,-1>>,
       <<1297,1297,-1>>, <<1299,1299,-1>>, <<1301,1301,-1>>,
       <<1303,1303,-1>>, <<1305,1305,-1>>, <<1307,1307,-1>>,
       <<1309,1309,-1>>, <<1311,1311,-1>>, <<1313,1313,-1>>,
       <<1315,1315,-1>>, <<1317,1317,-1>>, <<1319,1319,-1>>,
       <<1321,1321,-1>>, <<1323,1323,-1>>, <<1325,1325,-1>>,
       <<1327,1327,-1>>, <<1377,1414,-48>>, <<4304,4346,3008>>,
       <<4349,4351,3008>>, <<5112,5117,-8>>, <<7296,7296,-6254>>,
       <<7297,7297,-6253>>, <<7298,7298,-6244>>, <<7299,7300,-6242>>,
       <<7301,7301,-6243>>, <<7302,7302,-6236>>, <<7303,7303,-6181>>,
       <<7304,7304,35266>>, <<7545,7545,35332>>, <<7549,7549,3814>>,
       <<7566,7566,35384>>, <<7681,7681,-1>>, <<7683,7683,-1>>,
       <<7685,7685,-1>>, <<7687,7687,-1>>, <<7689,7689,-1>>,
       <<7691,7691,-1>>, <<7693,7693,-1>>, <<7695,7695,-1>>,
       <<7697,7697,-1>>, <<7699,7699,-1>>, <<7701,7701,-1>>,
       <<7703,7703,-1>>, <<7705,7705,-1>>, <<7707,7707,-1>>,
       <<7709,7709,-1>>, <<7711,7711,-1>>, <<7713,7713,-1>>,
       <<7715,7715,-1>>, <<7717,7717,-1>>, <<7719,7719,-1>>,
       <<7721,7721,-1>>, <<7723,7723,-1>>, <<7725,7725,-1>>,
       <<7727,7727,-1>>, <<7729,7729,-1>>, <<7731,7731,-1>>,
       <<7733,7733,-1>>, <<7735,7735,-1>>, <<7737,7737,-1>>,
       <<7739,7739,-1>>, <<7741,7741,-1>>, <<7743,7743,-1>>,
       <<7745,7745,-1>>, <<7747,7747,-1>>, <<7749,7749,-1>>,
       <<7751,7751,-1>>, <<7753,7753,-1>>, <<7755,7755,-1>>,
       <<7757,7757,-1>>, <<7759,7759,-1>>, <<7761,7761,-1>>,
       <<7763,7763,-1>>, <<7765,7765,-1>>, <<7767,7767,-1>>,
       <<7769,7769,-1>>, <<7771,7771,-1>>, <<7773,7773,-1>>,
       <<7775,7775,-1>>, <<7777,7777,-1>>, <<7779,7779,-1>>,
       <<7781,7781,-1>>, <<7783,7783,-1>>, <<7785,7785,-1>>,
       <<7787,7787,-1>>, <<7789,7789,-1>>, <<7791,7791,-1>>,
       <<7793,7793,-1>>, <<7795,7795,-1>>, <<7797,7797,-1>>,
       <<7799,7799,-1>>, <<7801,7801,-1>>, <<7803,7803,-1>>,
       <<7805,7805,-1>>, <<7807,7807,-1>>, <<7809,7809,-1>>,
       <<7811,7811,-1>>, <<7813,7813,-1>>, <<7815,7815,-1>>,
       <<7817,7817,-1>>, <<7819,7819,-1>>, <<7821,7821,-1>>,
       <<7823,7823,-1>>, <<7825,7825,-1>>, <<7827,7827,-1>>,
       <<7829,7829,-1>>, <<7835,7835,-59>>, <<7841,7841,-1>>,
       <<7843,7843,-1>>, <<7845,7845,-1>>, <<7847,7847,-1>>,
       <<7849,7849,-1>>, <<7851,7851,-1>>, <<7853,7853,-1>>,
       <<7855,7855,-1>>, <<7857,7857,-1>>, <<7859,7859,-1>>,
       <<7861,7861,-1>>, <<7863,7863,-1>>, <<7865,7865,-1>>,
       <<7867,7867,-1>>, <<7869,7869,-1>>, <<7871,7871,-1>>,
       <<7873,7873,-1>>, <<7875,7875,-1>>, <<7877,7877,-1>>,
       <<7879,7879,-1>>, <<7881,7881,-1>>, <<7883,7883,-1>>,
       <<7885,7885,-1>>, <<7887,7887,-1>>, <<7889,7889,-1>>,
       <<7891,7891,-1>>, <<7893,7893,-1>>, <<7895,7895,-1>>,
       <<7897,7897,-1>>, <<7899,7899,-1>>, <<7901,7901,-1>>,
       <<7903,7903,-1>>, <<7905,7905,-1>>, <<7907,7907,-1>>,
       <<7909,7909,-1>>, <<7911,7911,-1>>, <<7913,7913,-1>>,
       <<7915,7915,-1>>, <<7917,7917,-1>>, <<7919,7919,-1>>,
       <<7921,7921,-1>>, <<7923,7923,-1>>, <<7925,7925,-1>>,
       <<7927,7927,-1>>, <<7929,7929,-1>>, <<7931,7931,-1>>,
       <<7933,7933,-1>>, <<7935,7935,-1>>, <<7936,7943,8>>, <<7952,7957,8>>,
       <<7968,7975,8>>, <<7984,7991,8>>, <<8000,8005,8>>, <<8017,8017,8>>,
       <<8019,8019,8>>, <<8021,8021,8>>, <<8023,8023,8>>, <<8032,8039,8>>,
       <<8048,8049,74>>, <<8050,8053,86>>, <<8054,8055,100>>,
       <<8056,8057,128>>, <<8058,8059,112>>, <<8060,8061,126>>,
       <<8112,8113,8>>, <<8126,8126,-7205>>, <<8144,8145,8>>,
       <<8160,8161,8>>, <<8165,8165,7>>, <<8526,8526,-28>>,
       <<8560,8575,-16>>, <<8580,8580,-1>>, <<9424,9449,-26>>,
       <<11312,11359,-48>>, <<11361,11361,-1>>, <<11365,11365,-10795>>,
       <<11366,11366,-10792>>, <<11368,11368,-1>>, <<11370,11370,-1>>,
       <<11372,11372,-1>>, <<11379,11379,-1>>, <<11382,11382,-1>>,
       <<11393,11393,-1>>, <<11395,11395,-1>>, <<11397,11397,-1>>,
       <<11399,11399,-1>>, <<11401,11401,-1>>, <<11403,11403,-1>>,
       <<11405,11405,-1>>, <<11407,11407,-1>>, <<11409,11409,-1>>,
       <<11411,11411,-1>>, <<11413,11413,-1>>, <<11415,11415,-1>>,
       <<11417,11417,-1>>, <<11419,11419,-1>>, <<11421,11421,-1>>,
       <<11423,11423,-1>>, <<11425,11425,-1>>, <<11427,11427,-1>>,
       <<11429,11429,-1>>, <<11431,11431,-1>>, <<11433,11433,-1>>,
       <<11435,11435,-1>>, <<11437,11437,-1>>, <<11439,11439,-1>>,
       <<11441,11441,-1>>, <<11443,11443,-1>>, <<11445,11445,-1>>,
       <<11447,11447,-1>>, <<11449,11449,-1>>, <<11451,11451,-1>>,
       <<11453,11453,-1>>, <<11455,11455,-1>>, <<11457,11457,-1>>,
       <<11459,11459,-1>>, <<11461,11461,-1>>, <<11463,11463,-1>>,
       <<11465,11465,-1>>, <<11467,11467,-1>>, <<11469,11469,-1>>,
       <<11471,11471,-1>>, <<11473,11473,-1>>, <<11475,11475,-1>>,
       <<11477,11477,-1>>, <<11479,11479,-1>>, <<11481,11481,-1>>,
       <<11483,11483,-1>>, <<11485,11485,-1>>, <<11487,11487,-1>>,
       <<11489,11489,-1>>, <<11491,11491,-1>>, <<11500,11500,-1>>,
       <<11502,11502,-1>>, <<11507,11507,-1>>, <<11520,11557,-7264>>,
       <<11559,11559,-7264>>, <<11565,11565,-7264>>, <<42561,42561,-1>>,
       <<42563,42563,-1>>, <<42565,42565,-1>>, <<42567,42567,-1>>,
       <<42569,42569,-1>>, <<42571,42571,-1>>, <<42573,42573,-1>>,
       <<42575,42575,-1>>, <<42577,42577,-1>>, <<42579,42579,-1>>,
       <<42581,42581,-1>>, <<42583,42583,-1>>, <<42585,42585,-1>>,
       <<42587,42587,-1>>, <<42589,42589,-1>>, <<42591,42591,-1>>,
       <<42593,42593,-1>>, <<42595,42595,-1>>, <<42597,42597,-1>>,
       <<42599,42599,-1>>, <<42601,42601,-1>>, <<42603,42603,-1>>,
       <<42605,42605,-1>>, <<42625,42625,-1>>, <<42627,42627,-1>>,
       <<42629,42629,-1>>, <<42631,42631,-1>>, <<42633,42633,-1>>,
       <<42635,42635,-1>>, <<42637,42637,-1>>, <<42639,42639,-1>>,
       <<42641,42641,-1>>, <<42643,42643,-1>>, <<42645,42645,-1>>,
       <<42647,42647,-1>>, <<42649,42649,-1>>, <<42651,42651,-1>>,
       <<42787,42787,-1>>, <<42789,42789,-1>>, <<42791,42791,-1>>,
       <<42793,42793,-1>>, <<42795,42795,-1>>, <<42797,42797,-1>>,
       <<42799,42799,-1>>, <<42803,42803,-1>>, <<42805,42805,-1>>,
       <<42807,42807,-1>>, <<42809,42809,-1>>, <<42811,42811,-1>>,
       <<42813,42813,-1>>, <<42815,42815,-1>>, <<42817,42817,-1>>,
       <<42819,42819,-1>>, <<42821,42821,-1>>, <<42823,42823,-1>>,
       <<42825,42825,-1>>, <<42827,42827,-1>>, <<42829,42829,-1>>,
       <<42831,42831,-1>>, <<42833,42833,-1>>, <<42835,42835,-1>>,
       <<42837,42837,-1>>, <<42839,42839,-1>>, <<42841,42841,-1>>,
       <<42843,42843,-1>>, <<42845,42845,-1>>, <<42847,42847,-1>>,
       <<42849,42849,-1>>, <<42851,42851,-1>>, <<42853,42853,-1>>,
       <<42855,42855,-1>>, <<42857,42857,-1>>, <<42859,42859,-1>>,
       <<42861,42861,-1>>, <<42863,42863,-1>>, <<42874,42874,-1>>,
       <<42876,42876,-1>>, <<42879,42879,-1>>, <<42881,42881,-1>>,
       <<42883,42883,-1>>, <<42885,42885,-1>>, <<42887,42887,-1>>,
       <<42892,42892,-1>>, <<42897,42897,-1>>, <<42899,42899,-1>>,
       <<42900,42900,48>>, <<42903,42903,-1>>, <<42905,42905,-1>>,
       <<42907,42907,-1>>, <<42909,42909,-1>>, <<42911,42911,-1>>,
       <<42913,42913,-1>>, <<42915,42915,-1>>, <<42917,42917,-1>>,
       <<42919,42919,-1>>, <<42921,42921,-1>>, <<42933,42933,-1>>,
       <<42935,42935,-1>>, <<42937,42937,-1>>, <<42939,42939,-1>>,
       <<42941,42941,-1>>, <<42943,42943,-1>>, <<42945,42945,-1>>,
       <<42947,42947,-1>>, <<42952,42952,-1>>, <<42954,42954,-1>>,
       <<42961,42961,-1>>, <<42967,42967,-1>>, <<42969,42969,-1>>,
       <<42998,42998,-1>>, <<43859,43859,-928>>, <<43888,43967,-38864>>,
       <<65345,65370,-32>>, <<66600,66639,-40>>, <<66776,66811,-40>>,
       <<66967,66977,-39>>, <<66979,66993,-39>>, <<66995,67001,-39>>,
       <<67003,67004,-39>>, <<68800,68850,-64>>, <<71872,71903,-32>>,
       <<93792,93823,-32>>, <<125218,125251,-34>>
    >>

\* The characters str.upper() maps to several characters, each with the
\* characters it becomes (223, the sharp s, becomes <<83, 83>>, "SS").
UpperSpecial ==
    <<
       <<223,<<83,83>>>>, <<329,<<700,78>>>>, <<496,<<74,780>>>>,
       <<912,<<921,776,769>>>>, <<944,<<933,776,769>>>>,
       <<1415,<<1333,1362>>>>, <<7830,<<72,817>>>>, <<7831,<<84,776>>>>,
       <<7832,<<87,778>>>>, <<7833,<<89,778>>>>, <<7834,<<65,702>>>>,
       <<8016,<<933,787>>>>, <<8018,<<933,787,768>>>>,
       <<8020,<<933,787,769>>>>, <<8022,<<933,787,834>>>>,
       <<8064,<<7944,921>>>>, <<8065,<<7945,921>>>>, <<8066,<<7946,921>>>>,
       <<8067,<<7947,921>>>>, <<8068,<<7948,921>>>>, <<8069,<<7949,921>>>>,
       <<8070,<<7950,921>>>>, <<8071,<<7951,921>>>>, <<8072,<<7944,921>>>>,
       <<8073,<<7945,921>>>>, <<8074,<<7946,921>>>>, <<8075,<<7947,921>>>>,
       <<8076,<<7948,921>>>>, <<8077,<<7949,921>>>>, <<8078,<<7950,921>>>>,
       <<8079,<<7951,921>>>>, <<8080,<<7976,921>>>>, <<8081,<<7977,921>>>>,
       <<8082,<<7978,921>>>>, <<8083,<<7979,921>>>>, <<8084,<<7980,921>>>>,
       <<8085,<<7981,921>>>>, <<8086,<<7982,921>>>>, <<8087,<<7983,921>>>>,
       <<8088,<<7976,921>>>>, <<8089,<<7977,921>>>>, <<8090,<<7978,921>>>>,
       <<8091,<<7979,921>>>>, <<8092,<<7980,921>>>>, <<8093,<<7981,921>>>>,
       <<8094,<<7982,921>>>>, <<8095,<<7983,921>>>>, <<8096,<<8040,921>>>>,
       <<8097,<<8041,921>>>>, <<8098,<<8042,921>>>>, <<8099,<<8043,921>>>>,
       <<8100,<<8044,921>>>>, <<8101,<<8045,921>>>>, <<8102,<<8046,921>>>>,
       <<8103,<<8047,921>>>>, <<8104,<<8040,921>>>>, <<8105,<<8041,921>>>>,
       <<8106,<<8042,921>>>>, <<8107,<<8043,921>>>>, <<8108,<<8044,921>>>>,
       <<8109,<<8045,921>>>>, <<8110,<<8046,921>>>>, <<8111,<<8047,921>>>>,
       <<8114,<<8122,921>>>>, <<8115,<<913,921>>>>, <<8116,<<902,921>>>>,
       <<8118,<<913,834>>>>, <<8119,<<913,834,921>>>>, <<8124,<<913,921>>>>,
       <<8130,<<8138,921>>>>, <<8131,<<919,921>>>>, <<8132,<<905,921>>>>,
       <<8134,<<919,834>>>>, <<8135,<<919,834,921>>>>, <<8140,<<919,921>>>>,
       <<8146,<<921,776,768>>>>, <<8147,<<921,776,769>>>>,
       <<8150,<<921,834>>>>, <<8151,<<921,776,834>>>>,
       <<8162,<<933,776,768>>>>, <<8163,<<933,776,769>>>>,
       <<8164,<<929,787>>>>, <<8166,<<933,834>>>>, <<8167,<<933,776,834>>>>,
       <<8178,<<8186,921>>>>, <<8179,<<937,921>>>>, <<8180,<<911,921>>>>,
       <<8182,<<937,834>>>>, <<8183,<<937,834,921>>>>, <<8188,<<937,921>>>>,
       <<64256,<<70,70>>>>, <<64257,<<70,73>>>>, <<64258,<<70,76>>>>,
       <<64259,<<70,70,73>>>>, <<64260,<<70,70,76>>>>, <<64261,<<83,84>>>>,
       <<64262,<<83,84>>>>, <<64275,<<1348,1350>>>>, <<64276,<<1348,1333>>>>,
       <<64277,<<1348,1339>>>>, <<64278,<<1358,1350>>>>,
       <<64279,<<1348,1341>>>>
    >>

\* ch.upper() of one character, as the sequence of the characters it
\* becomes: most stay, or become one character; some become two or three.
upper_char(ch) ==
    IF \E i \in 1..Len(UpperSpecial) : UpperSpecial[i][1] = ch
    THEN UpperSpecial[CHOOSE i \in 1..Len(UpperSpecial) : UpperSpecial[i][1] = ch][2]
    ELSE IF \E i \in 1..Len(UpperRuns) : UpperRuns[i][1] <= ch /\ ch <= UpperRuns[i][2]
    THEN LET run == UpperRuns[CHOOSE i \in 1..Len(UpperRuns) :
                                 UpperRuns[i][1] <= ch /\ ch <= UpperRuns[i][2]]
         IN  << ch + run[3] >>
    ELSE << ch >>

RECURSIVE upper(_)
\* col_letters.upper(): every character replaced by what it becomes.
upper(chars) ==
    IF chars = <<>> THEN <<>> ELSE upper_char(Head(chars)) \o upper(Tail(chars))

\* not col_letters or any(ch not in string.ascii_uppercase for ch in col_letters)
invalid_col_letters(chars) ==
    \/ chars = <<>>
    \/ \E i \in 1..Len(chars) : \A u \in 1..26 : ascii_uppercase[u] # chars[i]

\* ord(ch) - ord("A") + 1
LetterOrd(ch) == ch - ascii_uppercase[1] + 1

RECURSIVE ColIdxFold(_, _)
\* for ch in col_letters: idx = idx * 26 + (ord(ch) - ord("A") + 1)
ColIdxFold(letters, idx) ==
    IF letters = <<>> THEN idx
    ELSE ColIdxFold(Tail(letters), idx * 26 + LetterOrd(Head(letters)))

\* The zero-based column index of a column given by its letters, after
\* strip() and upper(): raises is "ValueError" for an empty string or a
\* character outside A-Z (value is then unused), "none" otherwise.
excel_col_to_index(col_letters) ==
    LET letters == upper(strip(col_letters))
    IN  IF invalid_col_letters(letters)
        THEN [raises |-> "ValueError", value |-> 0]
        ELSE [raises |-> "none", value |-> ColIdxFold(letters, 0) - 1]

-----------------------------------------------------------------------------
(* load_rank_data *)

EmptyFrame == [columns |-> <<>>, rows |-> <<>>]

\* The number of columns of the frame read from the sheet: read_excel pads
\* every row to the sheet's width, and a sheet without rows has no columns.
ncols(frame) == IF frame = <<>> THEN 0 ELSE Len(frame[1])

rank_col_letters == [i \in 1..NumCourses |-> COURSE_COLUMN_MAP[i].letter]

\* Whether excel_col_to_index accepts every key of the map.
rank_col_letters_valid ==
    \A i \in 1..NumCourses : excel_col_to_index(rank_col_letters[i]).raises = "none"

rank_col_indices ==
    [i \in 1..NumCourses |-> excel_col_to_index(rank_col_letters[i]).value]

course_names == [i \in 1..NumCourses |-> COURSE_COLUMN_MAP[i].name]

\* iloc with a list of column positions raises IndexError when one of them
\* is out of bounds (a row slice past the end is only empty).
iloc_in_bounds(frame) ==
    \A i \in 1..NumCourses : rank_col_indices[i] < ncols(frame)

\* df.iloc[DATA_START_ROW_IDX:, rank_col_indices] with columns = course_names.
iloc_rank_columns(frame) ==
    [columns |-> course_names,
     rows |-> [i \in 1..(IF Len(frame) > DATA_START_ROW_IDX
                         THEN Len(frame) - DATA_START_ROW_IDX ELSE 0) |->
                 [j \in 1..NumCourses |->
                     frame[DATA_START_ROW_IDX + i][rank_col_indices[j] + 1]]]]

\* pd.to_numeric(errors="coerce") on one cell: a number stays, an empty cell
\* or a string that is not a number becomes NaN.
to_numeric(cell) == IF cell.k = "num" THEN <<cell.num>> ELSE <<>>

apply_to_numeric(frame) ==
    [columns |-> frame.columns,
     rows |-> [i \in 1..Len(frame.rows) |->
                 [j \in 1..Len(frame.rows[i]) |-> to_numeric(frame.rows[i][j])]]]

row_all_na(row) == \A j \in 1..Len(row) : isna(row[j])

row_any_na(row) == \E j \in 1..Len(row) : isna(row[j])

dropna_how_any(frame) ==
    [columns |-> frame.columns,
     rows |-> SelectSeq(frame.rows, LAMBDA row : ~row_any_na(row))]

\* rank_df.dropna(how="all"): the rows with at least one value, in order.
dropna_how_all(frame) ==
    [columns |-> frame.columns,
     rows |-> SelectSeq(frame.rows, LAMBDA row : ~row_all_na(row))]

load_rank_data(exists, frame) ==
    IF ~exists
    THEN [status |-> "FileNotFoundError", rank_df |-> EmptyFrame,
          total |-> 0, dropped |-> 0]
    ELSE IF ~rank_col_letters_valid
    THEN [status |-> "ValueError", rank_df |-> EmptyFrame,
          total |-> 0, dropped |-> 0]
    ELSE IF ~iloc_in_bounds(frame)
    THEN [status |-> "IndexError", rank_df |-> EmptyFrame,
          total |-> 0, dropped |-> 0]
    ELSE LET numeric == apply_to_numeric(iloc_rank_columns(frame))
             total   == Len(numeric.rows)
             kept    == dropna_how_all(numeric)
         IN  [status |-> "ok", rank_df |-> kept,
              total |-> total, dropped |-> total - Len(kept.rows)]

-----------------------------------------------------------------------------
(* summarize_rankings *)

notna_sum_counts_rows(col) == Len(col)

\* int(rank_df[c].notna().sum())
notna_sum(col) == SeqSum([i \in 1..Len(col) |-> IF notna(col[i]) THEN 1 ELSE 0])

\* The float s / n, kept exact as a fraction in lowest terms.
Frac(s, n) == LET g == GCD(s, n) IN << s \div g, n \div g >>

mean_over_all_rows(col) ==
    LET present == SelectSeq(col, notna)
    IN  IF Len(present) = 0 THEN <<>>
        ELSE Frac(SeqSum([i \in 1..Len(present) |-> present[i][1]]), Len(col))

\* float(rank_df[c].mean(skipna=True)): the sum of the present values over
\* their count, NaN when there is none.
mean_skipna(col) ==
    LET present == SelectSeq(col, notna)
    IN  IF Len(present) = 0 THEN <<>>
        ELSE Frac(SeqSum([i \in 1..Len(present) |-> present[i][1]]), Len(present))

\* Comparisons of floats: every comparison with NaN is false.
float_lt(a, b) == notna(a) /\ notna(b) /\ a[1] * b[2] < b[1] * a[2]

float_le(a, b) == notna(a) /\ notna(b) /\ a[1] * b[2] <= b[1] * a[2]

takes_left_only_if_smaller(a, b) == float_lt(a, b)

takes_left_if_larger(a, b) == ~float_lt(a, b)

\* The merge step of the stable sort takes the head of the left run unless
\* the head of the right run is strictly smaller.
takes_left(a, b) == ~float_lt(b, a)

RECURSIVE merge(_, _, _)
merge(l, r, keys) ==
    IF l = <<>> THEN r
    ELSE IF r = <<>> THEN l
    ELSE IF takes_left(keys[Head(l)], keys[Head(r)])
         THEN <<Head(l)>> \o merge(Tail(l), r, keys)
         ELSE <<Head(r)>> \o merge(l, Tail(r), keys)

RECURSIVE mergesort(_, _)
\* kind="mergesort" on the positions idx, ordered by their keys.
mergesort(idx, keys) ==
    IF Len(idx) <= 1 THEN idx
    ELSE LET mid == Len(idx) \div 2
         IN  merge(mergesort(SubSeq(idx, 1, mid), keys),
                   mergesort(SubSeq(idx, mid + 1, Len(idx)), keys), keys)

RECURSIVE PositionsWhere(_, _, _)
\* The positions i..Len(keys), increasing, whose key is NaN (nan = TRUE) or
\* is a number (nan = FALSE).
PositionsWhere(keys, i, nan) ==
    IF i > Len(keys) THEN <<>>
    ELSE (IF isna(keys[i]) = nan THEN <<i>> ELSE <<>>)
         \o PositionsWhere(keys, i + 1, nan)

nargsort_na_first(keys) ==
    PositionsWhere(keys, 1, TRUE) \o mergesort(PositionsWhere(keys, 1, FALSE), keys)

\* pandas' nargsort with na_position="last" (the default of sort_values): the
\* positions with a number are sorted, those with NaN follow in their order.
nargsort(keys) ==
    mergesort(PositionsWhere(keys, 1, FALSE), keys) \o PositionsWhere(keys, 1, TRUE)

\* summary.sort_values(by="mean_rank", ascending=True, kind="mergesort")
sort_values(rows) ==
    LET order == nargsort([i \in 1..Len(rows) |-> rows[i].mean_rank])
    IN  [p \in 1..Len(order) |-> rows[order[p]]]

final_rank_is_index(index) == index

\* summary["final_rank"] = summary.index + 1, the index being 0, 1, ... after
\* reset_index(drop=True).
final_rank_of(index) == index + 1

summarize_rankings(frame) ==
    LET unsorted == [j \in 1..Len(frame.columns) |->
                       LET c   == frame.columns[j]
                           col == Column(frame, ColumnOf(frame, c))
                       IN  [course_name |-> c,
                            n           |-> notna_sum(col),
                            mean_rank   |-> mean_skipna(col)]]
        sorted   == sort_values(unsorted)
    IN  [p \in 1..Len(sorted) |->
            [course_name |-> sorted[p].course_name,
             n           |-> sorted[p].n,
             mean_rank   |-> sorted[p].mean_rank,
             final_rank  |-> final_rank_of(p - 1)]]

-----------------------------------------------------------------------------
(* Inputs *)

Blank == [k |-> "blank", num |-> 0, txt |-> <<>>]

Text(t) == [k |-> "text", num |-> 0, txt |-> t]

Num(v) == [k |-> "num", num |-> v, txt |-> <<>>]

RankValues == 1..MaxRank

\* What a value of a rank table may be: NaN or a rank.
RankOrNaN == {<<>>} \cup {<<v>> : v \in RankValues}

\* What a rank cell of a respondent row of a sheet may be: empty, a text
\* that is not a number, or a rank.
CellKinds == {"blank", "text", "num"}

\* The rank a sheet holds in respondent row i, rank column j, when that cell
\* is a number: the ranks 1..MaxRank, laid out along the diagonals.
RankAt(i, j) == ((i + j) % MaxRank) + 1

SheetCell(kind, i, j) ==
    IF kind = "blank" THEN Blank
    ELSE IF kind = "text" THEN Text(<<"x">>)
    ELSE Num(RankAt(i, j))

\* The columns of a sheet before the first rank column hold other answers.
LeadingColumns == rank_col_indices[1]

\* A row of a sheet: the leading columns, then the cells of band.
SheetRow(band) ==
    [j \in 1..(LeadingColumns + Len(band)) |->
        IF j <= LeadingColumns THEN Text(<<"x">>) ELSE band[j - LeadingColumns]]

\* Respondent row i of a sheet, its rank cells of the kinds given.
RespondentRow(kinds, i) ==
    SheetRow([j \in 1..Len(kinds) |-> SheetCell(kinds[j], i, j)])

\* Labels of the kind "CODE - Description", one of them missing.
LabelCells ==
    << Text(<<"MATH 101", " - ", "Intro">>), Blank, Text(<<"ACC 200", " - ", "Audit">>) >>

LabelBand(w) == [j \in 1..w |-> LabelCells[((j - 1) % 3) + 1]]

HeaderStyles == {"labels", "numbers"}

\* The three rows above the responses, over a band of w columns: two empty
\* rows and a row of labels, or three rows of numbers.
Header(style, w) ==
    IF style = "labels"
    THEN << SheetRow([j \in 1..w |-> Blank]),
            SheetRow([j \in 1..w |-> Blank]),
            SheetRow(LabelBand(w)) >>
    ELSE [i \in 1..DATA_START_ROW_IDX |-> SheetRow([j \in 1..w |-> Num(1)])]

\* Whether frame is a sheet with at most maxrows respondent rows: three
\* header rows and the respondent rows, the sheet as wide as the last rank
\* column or one column short of it, or a sheet that ends within the header
\* rows (without any row it has no column either).
IsSheet(frame, maxrows) ==
    \/ \E r \in 0..maxrows :
          \E t \in [1..r -> [1..(NumCourses - 1) -> CellKinds]] :
             frame = Header("labels", NumCourses - 1) \o [i \in 1..r |-> RespondentRow(t[i], i)]
    \/ \E style \in HeaderStyles : \E r \in 0..maxrows :
          \E t \in [1..r -> [1..NumCourses -> CellKinds]] :
             frame = Header(style, NumCourses) \o [i \in 1..r |-> RespondentRow(t[i], i)]
    \/ \E h \in 0..(DATA_START_ROW_IDX - 1) :
          frame = SubSeq(Header("labels", NumCourses), 1, h)

OutdirKinds == {"absent", "dir", "file"}

-----------------------------------------------------------------------------
(* main *)

Init ==
    /\ pc = "mkdir"
    /\ input_exists \in BOOLEAN
    /\ IF input_exists THEN IsSheet(df, MaxRows) ELSE df = <<>>
    /\ outdir0 \in OutdirKinds
    /\ outdir = outdir0
    /\ files = {}
    /\ rank_df = EmptyFrame
    /\ total_rows_after_row4 = 0
    /\ rows_dropped_all_blank = 0
    /\ stdout = <<>>
    /\ summary = <<>>
    /\ error = "none"

\* outdir.mkdir(parents=True, exist_ok=True): an existing directory is left
\* alone, a missing one is created, a path that is a file raises.
Mkdir ==
    /\ pc = "mkdir"
    /\ IF outdir = "file"
       THEN /\ pc' = "failed"
            /\ error' = "FileExistsError"
            /\ UNCHANGED outdir
       ELSE /\ pc' = "load"
            /\ outdir' = "dir"
            /\ UNCHANGED error
    /\ UNCHANGED <<input_exists, df, outdir0, files, rank_df,
                   total_rows_after_row4, rows_dropped_all_blank, stdout, summary>>

\* rank_df, total_rows_after_row4, rows_dropped_all_blank = load_rank_data(input_path)
LoadRankData ==
    /\ pc = "load"
    /\ LET r == load_rank_data(input_exists, df)
       IN  IF r.status = "ok"
           THEN /\ rank_df' = r.rank_df
                /\ total_rows_after_row4' = r.total
                /\ rows_dropped_all_blank' = r.dropped
                /\ pc' = "audit"
                /\ UNCHANGED error
           ELSE /\ pc' = "failed"
                /\ error' = r.status
                /\ UNCHANGED <<rank_df, total_rows_after_row4, rows_dropped_all_blank>>
    /\ UNCHANGED <<input_exists, df, outdir, outdir0, files, stdout, summary>>

\* The three kinds of audit line, in the order printed.
PrintAudit ==
    /\ pc = "audit"
    /\ stdout' = stdout
          \o << [line |-> "Audit: total rows after row 4", value |-> total_rows_after_row4],
                [line |-> "Audit: rows dropped as all-blank", value |-> rows_dropped_all_blank] >>
          \o [j \in 1..Len(rank_df.columns) |->
                [line  |-> rank_df.columns[j],
                 value |-> notna_sum(Column(rank_df, ColumnOf(rank_df, rank_df.columns[j])))]]
    /\ pc' = "summarize"
    /\ UNCHANGED <<input_exists, df, outdir, outdir0, files, rank_df,
                   total_rows_after_row4, rows_dropped_all_blank, summary, error>>

\* summary = summarize_rankings(rank_df)
SummarizeRankings ==
    /\ pc = "summarize"
    /\ summary' = summarize_rankings(rank_df)
    /\ pc' = "to_csv"
    /\ UNCHANGED <<input_exists, df, outdir, outdir0, files, rank_df,
                   total_rows_after_row4, rows_dropped_all_blank, stdout, error>>

ToCsv ==
    /\ pc = "to_csv"
    /\ files' = files \cup {"course_rankings.csv"}
    /\ pc' = "save_chart"
    /\ UNCHANGED <<input_exists, df, outdir, outdir0, rank_df,
                   total_rows_after_row4, rows_dropped_all_blank, stdout, summary, error>>

SaveChart ==
    /\ pc = "save_chart"
    /\ files' = files \cup {"rank_order.png"}
    /\ pc' = "write_reflection"
    /\ UNCHANGED <<input_exists, df, outdir, outdir0, rank_df,
                   total_rows_after_row4, rows_dropped_all_blank, stdout, summary, error>>

\* reflection_path.write_text(...), then the three "Saved" lines.
WriteReflection ==
    /\ pc = "write_reflection"
    /\ files' = files \cup {"reflection.md"}
    /\ stdout' = stdout
          \o << [line |-> "Saved: course_rankings.csv", value |-> 0],
                [line |-> "Saved: rank_order.png", value |-> 0],
                [line |-> "Saved: reflection.md", value |-> 0] >>
    /\ pc' = "done"
    /\ UNCHANGED <<input_exists, df, outdir, outdir0, rank_df,
                   total_rows_after_row4, rows_dropped_all_blank, summary, error>>

Next ==
    \/ Mkdir
    \/ LoadRankData
    \/ PrintAudit
    \/ SummarizeRankings
    \/ ToCsv
    \/ SaveChart
    \/ WriteReflection

Spec == Init /\ [][Next]_vars

-----------------------------------------------------------------------------
(* load_rank_data called on a sheet, and the audit lines main prints *)

InitLoad ==
    /\ pc = "load"
    /\ input_exists \in BOOLEAN
    /\ IF input_exists THEN IsSheet(df, MaxRows) ELSE df = <<>>
    /\ outdir0 = "dir"
    /\ outdir = "dir"
    /\ files = {}
    /\ rank_df = EmptyFrame
    /\ total_rows_after_row4 = 0
    /\ rows_dropped_all_blank = 0
    /\ stdout = <<>>
    /\ summary = <<>>
    /\ error = "none"

NextLoad == LoadRankData \/ PrintAudit

SpecLoad == InitLoad /\ [][NextLoad]_vars

-----------------------------------------------------------------------------
(* summarize_rankings called on a rank table *)

InitSummarize ==
    /\ pc = "summarize"
    /\ \E k \in 0..NumCourses : \E r \in 0..MaxRows :
          \E t \in [1..r -> [1..k -> RankOrNaN]] :
             rank_df = [columns |-> SubSeq(course_names, 1, k), rows |-> t]
    /\ input_exists = TRUE
    /\ df = <<>>
    /\ outdir0 = "dir"
    /\ outdir = "dir"
    /\ files = {}
    /\ total_rows_after_row4 = 0
    /\ rows_dropped_all_blank = 0
    /\ stdout = <<>>
    /\ summary = <<>>
    /\ error = "none"

NextSummarize == SummarizeRankings

SpecSummarize == InitSummarize /\ [][NextSummarize]_vars

-----------------------------------------------------------------------------
(* Properties *)

\* summarize_rankings has returned.
Summarized == pc = "to_csv"

\* load_rank_data has returned without raising.
Loaded == pc \in {"audit", "summarize"}

\* The row of the summary for course c.
SummaryRow(c) == summary[CHOOSE p \in 1..Len(summary) : summary[p].course_name = c]

\* The values of course c in rank_df, down the rows.
CourseValues(c) == Column(rank_df, ColumnOf(rank_df, c))

RECURSIVE SumAt(_, _)
\* The sum of the numbers col holds at the positions in S.
SumAt(col, S) ==
    IF S = {} THEN 0
    ELSE LET i == CHOOSE x \in S : TRUE IN col[i][1] + SumAt(col, S \ {i})

\* C1: summarize_rankings returns exactly one row per course of the rank
\* table, none lost and none twice, and the row at sorted position i
\* (0-based) carries final_rank i + 1, so that the final ranks are 1..k.
C1_OneRowPerCourseRanks1ToK ==
    Summarized =>
        /\ Len(summary) = Len(rank_df.columns)
        /\ \A j \in 1..Len(rank_df.columns) :
              Cardinality({p \in 1..Len(summary) :
                              summary[p].course_name = rank_df.columns[j]}) = 1
        /\ \A p \in 1..Len(summary) : summary[p].final_rank = p
        /\ {summary[p].final_rank : p \in 1..Len(summary)} = 1..Len(rank_df.columns)

\* A table whose second course sorts first.
C1_Witness ==
    /\ Summarized
    /\ Len(summary) = NumCourses
    /\ summary[1].course_name = rank_df.columns[2]
    /\ summary[1].final_rank = 1

\* C2: the sort is stable: of two courses with equal mean_rank, the one whose
\* column comes first in the rank table gets the strictly lower final_rank.
C2_StableOnTies ==
    Summarized =>
        \A a, b \in 1..Len(rank_df.columns) :
            LET ra == SummaryRow(rank_df.columns[a])
                rb == SummaryRow(rank_df.columns[b])
            IN  (a < b /\ notna(ra.mean_rank) /\ ra.mean_rank = rb.mean_rank)
                    => ra.final_rank < rb.final_rank

\* Two courses tie on the mean with different counts.
C2_Witness ==
    /\ Summarized
    /\ \E a, b \in 1..Len(rank_df.columns) :
          LET ra == SummaryRow(rank_df.columns[a])
              rb == SummaryRow(rank_df.columns[b])
          IN  /\ a < b
              /\ notna(ra.mean_rank)
              /\ ra.mean_rank = rb.mean_rank
              /\ ra.n # rb.n
              /\ ra.final_rank < rb.final_rank

\* C3 as stated: along the output order mean_rank never decreases, for every
\* two rows r1 before r2, r1.mean_rank <= r2.mean_rank.
C3_Original_MeanNonDecreasing ==
    Summarized =>
        \A p, q \in 1..Len(summary) :
            p < q => float_le(summary[p].mean_rank, summary[q].mean_rank)

\* C3 amended: for every two rows r1 before r2 whose means are both numbers
\* (n >= 1), r1.mean_rank <= r2.mean_rank; the mean of a course with n = 0 is
\* NaN, which is <= nothing, and no row with a number follows such a row.
C3_MeanNonDecreasingAmongNumbers ==
    Summarized =>
        \A p, q \in 1..Len(summary) :
            p < q =>
                \/ isna(summary[q].mean_rank)
                \/ /\ notna(summary[p].mean_rank)
                   /\ summary[p].mean_rank[1] * summary[q].mean_rank[2]
                         <= summary[q].mean_rank[1] * summary[p].mean_rank[2]

\* The sort had to exchange two courses with different means.
C3_Witness ==
    /\ Summarized
    /\ Len(summary) >= 2
    /\ summary[1].course_name = rank_df.columns[2]
    /\ summary[2].course_name = rank_df.columns[1]
    /\ float_lt(summary[1].mean_rank, summary[2].mean_rank)

\* C4: a course without any present value does not stop summarize_rankings
\* (every course still has its row) and is placed last: each course with
\* n = 0 has a higher final_rank than each course with n >= 1.
C4_EmptyCoursesLast ==
    Summarized =>
        /\ Len(summary) = Len(rank_df.columns)
        /\ \A p, q \in 1..Len(summary) :
              (summary[p].n = 0 /\ summary[q].n >= 1)
                  => summary[p].final_rank > summary[q].final_rank

\* The first course has no value, a later one has, and it is moved behind.
C4_Witness ==
    /\ Summarized
    /\ Len(rank_df.rows) >= 1
    /\ Len(summary) >= 2
    /\ SummaryRow(rank_df.columns[1]).n = 0
    /\ SummaryRow(rank_df.columns[2]).n >= 1
    /\ SummaryRow(rank_df.columns[1]).final_rank > SummaryRow(rank_df.columns[2]).final_rank

\* C5: for every course, n is the number of present values of its column,
\* and when n >= 1 mean_rank is the sum of the present values divided by n.
C5_CountAndMeanOfPresent ==
    Summarized =>
        \A j \in 1..Len(rank_df.columns) :
            LET c       == rank_df.columns[j]
                col     == CourseValues(c)
                present == {i \in 1..Len(col) : col[i] # <<>>}
                row     == SummaryRow(c)
            IN  /\ row.n = Cardinality(present)
                /\ row.n >= 1 =>
                      /\ notna(row.mean_rank)
                      /\ row.mean_rank[1] * row.n = row.mean_rank[2] * SumAt(col, present)

\* A course with an absent value and a present one: n = 1 of two rows.
C5_Witness ==
    /\ Summarized
    /\ \E j \in 1..Len(rank_df.columns) :
          LET col == CourseValues(rank_df.columns[j])
          IN  /\ Len(col) >= 2
              /\ isna(col[1])
              /\ col[2] = <<MaxRank>>
              /\ SummaryRow(rank_df.columns[j]).n = 1
              /\ SummaryRow(rank_df.columns[j]).mean_rank = <<MaxRank, 1>>

\* The rows of the sheet at or after the data-start index.
RespondentRowsOf(frame) == {i \in 1..Len(frame) : i - 1 >= DATA_START_ROW_IDX}

\* Whether the rank cell of course j in row i of the sheet holds a number.
HoldsNumber(frame, i, j) == frame[i][rank_col_indices[j] + 1].k = "num"

\* The rows of the sheet without a number in any rank column.
AllAbsentRowsOf(frame) ==
    {i \in RespondentRowsOf(frame) : \A j \in 1..NumCourses : ~HoldsNumber(frame, i, j)}

\* C6: the audit counts of load_rank_data match the sheet: total_rows is the
\* number of rows at or after row index 3, dropped the number of those rows
\* absent in every course column, the table returned has total_rows - dropped
\* rows, none of them absent in every column, and the n printed for a course
\* counts its numbers in the rows that remain.
C6_AuditCountsMatch ==
    Loaded =>
        /\ total_rows_after_row4 = Cardinality(RespondentRowsOf(df))
        /\ rows_dropped_all_blank = Cardinality(AllAbsentRowsOf(df))
        /\ Len(rank_df.rows) = total_rows_after_row4 - rows_dropped_all_blank
        /\ \A i \in 1..Len(rank_df.rows) :
              \E j \in 1..Len(rank_df.rows[i]) : rank_df.rows[i][j] # <<>>
        /\ pc = "summarize" =>
              \A j \in 1..NumCourses :
                  /\ stdout[2 + j].line = course_names[j]
                  /\ stdout[2 + j].value =
                        Cardinality({i \in RespondentRowsOf(df) \ AllAbsentRowsOf(df) :
                                        HoldsNumber(df, i, j)})
        /\ pc = "summarize" =>
              /\ stdout[1].value = Cardinality(RespondentRowsOf(df))
              /\ stdout[2].value = Cardinality(AllAbsentRowsOf(df))

\* Of the respondent rows one, holding an empty and a text cell, is dropped,
\* and one is kept.
C6_Witness ==
    /\ pc = "summarize"
    /\ total_rows_after_row4 = MaxRows
    /\ rows_dropped_all_blank = 1
    /\ Len(rank_df.rows) = MaxRows - 1
    /\ \E i \in AllAbsentRowsOf(df) :
          /\ df[i][rank_col_indices[1] + 1].k = "text"
          /\ df[i][rank_col_indices[2] + 1].k = "blank"

\* C7: when the input path does not exist main fails with the not-found
\* error before any output: at that moment no artifact has been written and
\* the output location is as it was, the directory not created.
C7_NotFoundBeforeAnyOutput ==
    (pc = "failed" /\ error = "FileNotFoundError") =>
        /\ ~input_exists
        /\ files = {}
        /\ outdir = outdir0

\* C8: coercion never fails: the table returned holds, for each respondent
\* row that is kept, the number of each cell that holds one and NaN for each
\* other cell, and on a sheet that was read load_rank_data raises nothing, so
\* its only error is the not-found one of a missing input.
C8_OnlyNotFoundError ==
    /\ Loaded =>
          rank_df.rows =
              SelectSeq([i \in 1..Cardinality(RespondentRowsOf(df)) |->
                           [j \in 1..NumCourses |->
                               LET cell == df[DATA_START_ROW_IDX + i][rank_col_indices[j] + 1]
                               IN  IF cell.k = "num" THEN <<cell.num>> ELSE <<>>]],
                        LAMBDA row : \E j \in 1..Len(row) : row[j] # <<>>)
    /\ pc = "failed" => (error = "FileNotFoundError" /\ ~input_exists)

RECURSIVE Join(_)
\* The fragments of a text, put together.
Join(fragments) ==
    IF fragments = <<>> THEN "" ELSE Head(fragments) \o Join(Tail(fragments))

\* The position of the last delimiter " - " among the fragments, 0 if none.
LastDelimiter(fragments) ==
    LET at == {i \in 1..Len(fragments) : fragments[i] = " - "}
    IN  IF at = {} THEN 0 ELSE CHOOSE i \in at : \A x \in at : x <= i

\* The course name the label cell stands for: the text after the last
\* " - ", the empty string for a missing label.
DerivedName(cell) ==
    IF cell.k # "text" THEN ""
    ELSE Join(SubSeq(cell.txt, LastDelimiter(cell.txt) + 1, Len(cell.txt)))

\* C9: the course names are derived from a label row of the sheet: the name
\* of each selected column is the text of its label after the last " - ",
\* the empty string if the label is missing.
C9_NamesFromLabelRow ==
    (Loaded /\ Len(df) >= DATA_START_ROW_IDX) =>
        \E h \in 1..DATA_START_ROW_IDX :
            \A j \in 1..NumCourses :
                rank_df.columns[j] = DerivedName(df[h][rank_col_indices[j] + 1])

\* C10: dropping the rows absent in every column is invisible to the
\* aggregation: the summary of a table of coerced rows is the summary of the
\* table with those rows removed.
C10_DropInvisibleToSummary ==
    Summarized => summary = summarize_rankings(dropna_how_all(rank_df))

\* A table with a row absent in every column before a row with a value.
C10_Witness ==
    /\ Summarized
    /\ Len(rank_df.columns) = NumCourses
    /\ Len(rank_df.rows) >= 2
    /\ row_all_na(rank_df.rows[1])
    /\ ~row_all_na(rank_df.rows[2])
    /\ Len(dropna_how_all(rank_df).rows) < Len(rank_df.rows)
    /\ summary[1].n = 1

====
